---- MODULE Spec2Model ----
(***************************************************************************)
(* The terminfo-backed terminal of src/terminfo/mod.rs: TerminfoTerminal   *)
(* (num_colors, out, ti), its constructor new() and the Terminal           *)
(* operations fg, bg, attr, supports_attr and reset, with the helpers      *)
(* cap_for_attr, dim_if_necessary and apply_cap.                           *)
(*                                                                         *)
(* The modules the file uses but does not contain (searcher::open,         *)
(* parser::compiled::{parse, msys_terminfo}, parm::{expand, Variables})    *)
(* are modelled from the specification: their definitions are grouped in   *)
(* the sections "parm" and "parser / searcher" below.                      *)
(*                                                                         *)
(* The sink `out` is a writer that records every buffer handed to write()  *)
(* and never fails (a MemWriter); color::Color and num_colors are u16, and *)
(* color - 8 is computed only for color >= 8. The pass-through methods     *)
(* (get_ref, get_mut, unwrap, Writer::write, Writer::flush) are left out.  *)
(***************************************************************************)
EXTENDS Integers, Sequences, FiniteSets, TLC

VARIABLES
    phase,        \* "start": new() not yet called; "unavailable": new() returned None;
                  \* "ready": new() returned Some(TerminfoTerminal)
    num_colors,   \* TerminfoTerminal.num_colors
    out,          \* TerminfoTerminal.out: the sequence of buffers written so far
    ti,           \* TerminfoTerminal.ti: the TermInfo record
    variables,    \* the Variables value handed to the most recent expand() call, as
                  \* that call left it (a temporary of apply_cap / reset)
    last          \* the most recent call: its name, arguments and return value

vars == <<phase, num_colors, out, ti, variables, last>>

\* Number of write() calls the recording sink accepts before the run stops.
MaxWrites == 2
\* Largest color index for which dim_if_necessary is tabulated in each state.
MaxColor == 20

(***************************************************************************)
(* parm: capability templates, the variable store and expand()             *)
(***************************************************************************)

\* A template is a sequence of tokens [d, x]: d = "lit" with the literal
\* bytes x, or a %-directive d with its argument x ("" when it has none).
Lit(s)     == [d |-> "lit", x |-> s]
Dir(d)     == [d |-> d, x |-> ""]
DirX(d, x) == [d |-> d, x |-> x]

Lower == {"a", "b", "c", "d", "e", "f", "g", "h", "i", "j", "k", "l", "m",
          "n", "o", "p", "q", "r", "s", "t", "u", "v", "w", "x", "y", "z"}
Upper == {"A", "B", "C", "D", "E", "F", "G", "H", "I", "J", "K", "L", "M",
          "N", "O", "P", "Q", "R", "S", "T", "U", "V", "W", "X", "Y", "Z"}

\* Variables::new(): both banks of 26 slots hold Number(0). A bank is kept as
\* the map of the slots written so far; a slot not in it holds Number(0).
Variables_new == [sta |-> [c \in {} |-> 0], dyn |-> [c \in {} |-> 0]]

GetSlot(bank, x)    == IF x \in DOMAIN bank THEN bank[x] ELSE 0
SetSlot(bank, x, v) == [c \in DOMAIN bank \cup {x} |-> IF c = x THEN v ELSE bank[c]]

ParamIndex == [s \in {"1", "2", "3", "4", "5", "6", "7", "8", "9"} |->
                 CASE s = "1" -> 1 [] s = "2" -> 2 [] s = "3" -> 3
                   [] s = "4" -> 4 [] s = "5" -> 5 [] s = "6" -> 6
                   [] s = "7" -> 7 [] s = "8" -> 8 [] s = "9" -> 9]

\* The nine positional parameters of one call; the ones not supplied are 0.
PadParams(params) == [i \in 1..9 |-> IF i <= Len(params) THEN params[i] ELSE 0]

BinaryOps == {"%+", "%-", "%*", "%=", "%>", "%<", "%A", "%O"}
UnaryOps  == {"%!"}

Bool2Int(b) == IF b THEN 1 ELSE 0

ApplyBinary(d, x, y) ==
    CASE d = "%+" -> x + y
      [] d = "%-" -> x - y
      [] d = "%*" -> x * y
      [] d = "%=" -> Bool2Int(x = y)
      [] d = "%>" -> Bool2Int(x > y)
      [] d = "%<" -> Bool2Int(x < y)
      [] d = "%A" -> Bool2Int(x # 0 /\ y # 0)
      [] d = "%O" -> Bool2Int(x # 0 \/ y # 0)

ExpandErr(e, vs) == [ok |-> FALSE, err |-> e, bytes |-> << >>, vars |-> vs]
ExpandOk(b, vs)  == [ok |-> TRUE, err |-> "", bytes |-> b, vars |-> vs]

\* Forward scan of a skipped branch from position i: the position of the
\* "%;" that closes the conditional (or of its "%e" when elseOk), nested
\* %? ... %; pairs stepped over; 0 when the template ends first.
RECURSIVE SkipBranch(_, _, _, _)
SkipBranch(t, i, level, elseOk) ==
    IF i > Len(t) THEN 0
    ELSE IF t[i].d = "%?" THEN SkipBranch(t, i + 1, level + 1, elseOk)
    ELSE IF t[i].d = "%;" THEN
        IF level = 0 THEN i ELSE SkipBranch(t, i + 1, level - 1, elseOk)
    ELSE IF t[i].d = "%e" /\ level = 0 /\ elseOk THEN i
    ELSE SkipBranch(t, i + 1, level, elseOk)

Pop(stack) == SubSeq(stack, 1, Len(stack) - 1)
Top(stack) == stack[Len(stack)]

\* The interpreter: cursor i, operand stack, parameters p, variable
\* store vs, output b, number of conditionals opened and not yet closed.
RECURSIVE Run(_, _, _, _, _, _, _)
Run(t, i, stack, p, vs, b, open) ==
    IF i > Len(t) THEN
        IF open > 0 THEN ExpandErr("UnterminatedConditional", vs) ELSE ExpandOk(b, vs)
    ELSE LET d == t[i].d
             x == t[i].x
         IN
    CASE d = "lit" -> Run(t, i + 1, stack, p, vs, Append(b, x), open)
      [] d = "%%"  -> Run(t, i + 1, stack, p, vs, Append(b, "%"), open)
      [] d = "%p"  ->
            IF x \in DOMAIN ParamIndex
            THEN Run(t, i + 1, Append(stack, p[ParamIndex[x]]), p, vs, b, open)
            ELSE ExpandErr("Malformed", vs)
      [] d = "%P"  ->
            IF x \notin Upper \cup Lower THEN ExpandErr("Malformed", vs)
            ELSE IF stack = << >> THEN ExpandErr("StackUnderflow", vs)
            ELSE IF x \in Upper
            THEN Run(t, i + 1, Pop(stack), p,
                     [vs EXCEPT !.sta = SetSlot(@, x, Top(stack))], b, open)
            ELSE Run(t, i + 1, Pop(stack), p,
                     [vs EXCEPT !.dyn = SetSlot(@, x, Top(stack))], b, open)
      [] d = "%g"  ->
            IF x \in Upper THEN Run(t, i + 1, Append(stack, GetSlot(vs.sta, x)), p, vs, b, open)
            ELSE IF x \in Lower THEN Run(t, i + 1, Append(stack, GetSlot(vs.dyn, x)), p, vs, b, open)
            ELSE ExpandErr("Malformed", vs)
      [] d = "%d"  ->
            IF stack = << >> THEN ExpandErr("StackUnderflow", vs)
            ELSE Run(t, i + 1, Pop(stack), p, vs, Append(b, ToString(Top(stack))), open)
      [] d = "%i"  ->
            Run(t, i + 1, stack, [p EXCEPT ![1] = @ + 1, ![2] = @ + 1], vs, b, open)
      [] d \in BinaryOps ->
            IF Len(stack) < 2 THEN ExpandErr("StackUnderflow", vs)
            ELSE Run(t, i + 1,
                     Append(Pop(Pop(stack)), ApplyBinary(d, Top(Pop(stack)), Top(stack))),
                     p, vs, b, open)
      [] d \in UnaryOps ->
            IF stack = << >> THEN ExpandErr("StackUnderflow", vs)
            ELSE Run(t, i + 1, Append(Pop(stack), Bool2Int(Top(stack) = 0)), p, vs, b, open)
      [] d = "%?"  -> Run(t, i + 1, stack, p, vs, b, open + 1)
      [] d = "%t"  ->
            IF stack = << >> THEN ExpandErr("StackUnderflow", vs)
            ELSE IF Top(stack) # 0 THEN Run(t, i + 1, Pop(stack), p, vs, b, open)
            ELSE LET j == SkipBranch(t, i + 1, 0, TRUE) IN
                 IF j = 0 THEN ExpandErr("UnterminatedConditional", vs)
                 ELSE IF t[j].d = "%e" THEN Run(t, j + 1, Pop(stack), p, vs, b, open)
                 ELSE Run(t, j + 1, Pop(stack), p, vs, b, open - 1)
      [] d = "%e"  ->
            LET j == SkipBranch(t, i + 1, 0, FALSE) IN
            IF j = 0 THEN ExpandErr("UnterminatedConditional", vs)
            ELSE Run(t, j + 1, stack, p, vs, b, open - 1)
      [] d = "%;"  -> Run(t, i + 1, stack, p, vs, b, IF open > 0 THEN open - 1 ELSE 0)
      [] OTHER     -> ExpandErr("Malformed", vs)

\* expand(cap, params, &mut vars): Ok(bytes) or Err, and the store afterwards.
expand(cap, params, vs) == Run(cap, 1, << >>, PadParams(params), vs, << >>, 0)

(***************************************************************************)
(* parser / searcher: the TermInfo records new() can be handed              *)
(***************************************************************************)

EmptyMap == [k \in {} |-> 0]

\* pub struct TermInfo { names, bools, numbers, strings }
TermInfo(names, numbers, strings) ==
    [names |-> names, bools |-> EmptyMap, numbers |-> numbers, strings |-> strings]

NumColors(n) == [k \in {"colors"} |-> n]

\* Template bodies: the directives that follow a capability's literal bytes.
Body(kind) ==
    CASE kind = "plain"        -> << >>
      [] kind = "param"        -> <<DirX("%p", "1"), Dir("%d")>>
      [] kind = "leak"         -> <<DirX("%g", "A"), Dir("%d"), DirX("%g", "a"), Dir("%d"),
                                    DirX("%p", "1"), Dir("%d"),
                                    DirX("%p", "1"), DirX("%P", "A"),
                                    DirX("%p", "1"), DirX("%P", "a")>>
      [] kind = "cond"         -> <<Dir("%?"), DirX("%p", "1"), Dir("%t"), Lit("+"),
                                    Dir("%e"), Lit("-"), Dir("%;")>>
      [] kind = "underflow"    -> <<Dir("%d")>>
      [] kind = "malformed"    -> <<Dir("%z")>>
      [] kind = "unterminated" -> <<Dir("%?"), DirX("%p", "1"), Dir("%t"), Lit("x")>>

\* The template stored under `name`: literal bytes that identify the
\* capability (its escape sequence), then the body.
Template(name, kind) == <<Lit(name)>> \o Body(kind)

FailingKinds == {"underflow", "malformed", "unterminated"}

\* The names of the string capabilities the compiled format defines, as far
\* as the terminal looks them up.
AttrCaps  == {"bold", "dim", "sitm", "ritm", "smul", "rmul", "blink",
              "smso", "rmso", "rev", "invis"}
ColorCaps == {"setaf", "setab"}
ResetCaps == {"sgr0", "sgr", "op"}

\* Values of the numeric capability "colors" in the entries of the database.
ColorCounts == {8, 12, 16}
NumberMaps  == {EmptyMap} \cup {NumColors(n) : n \in ColorCounts}

\* Entries that differ in the color capabilities.
ColorTables ==
    { TermInfo(<<"color">>, nm, [n \in S |-> Template(n, k)]) :
        S \in SUBSET ColorCaps, nm \in NumberMaps, k \in {"param", "leak", "underflow"} }

\* Entries that differ in the reset capabilities: any subset of them, all
\* plain, or with conditional bodies of which at most one is replaced by a
\* body whose expansion fails.
ResetTables ==
    { TermInfo(<<"reset">>, EmptyMap, [n \in S |-> Template(n, "plain")]) :
        S \in SUBSET ResetCaps }
    \cup
    { TermInfo(<<"reset">>, EmptyMap,
               [n \in S |-> Template(n, IF n = bad THEN k ELSE "cond")]) :
        S \in SUBSET ResetCaps, bad \in ResetCaps, k \in FailingKinds }

\* Entries with a single attribute capability.
AttrTables ==
    { TermInfo(<<"attr">>, EmptyMap, [n \in {a} |-> Template(n, k)]) :
        a \in AttrCaps, k \in {"plain", "malformed"} }

\* An entry with colors, an attribute and a reset capability.
MixedTable ==
    TermInfo(<<"mixed">>, NumColors(8),
             [n \in {"setaf", "setab", "op", "bold"} |->
                Template(n, IF n = "bold" THEN "plain" ELSE "leak")])

\* parse(): the records decoding can yield.
Tables == ColorTables \cup ResetTables \cup AttrTables \cup {MixedTable}

\* parse(): the errors decoding can yield.
DecodeErrors == {"BadMagic", "Truncated"}

\* msys_terminfo(): the built-in table, 8 colors.
msys_terminfo ==
    TermInfo(<<"cygwin">>, NumColors(8),
             [n \in {"sgr0", "bold", "setaf", "setab"} |->
                Template(n, IF n \in ColorCaps THEN "param" ELSE "plain")])

(***************************************************************************)
(* Attr and color::Color                                                    *)
(***************************************************************************)

Attr(kind, on, color) == [kind |-> kind, on |-> on, color |-> color]

Bold               == Attr("Bold", FALSE, 0)
Dim                == Attr("Dim", FALSE, 0)
Italic(b)          == Attr("Italic", b, 0)
Underline(b)       == Attr("Underline", b, 0)
Blink              == Attr("Blink", FALSE, 0)
Standout(b)        == Attr("Standout", b, 0)
Reverse            == Attr("Reverse", FALSE, 0)
Secure             == Attr("Secure", FALSE, 0)
ForegroundColor(c) == Attr("ForegroundColor", FALSE, c)
BackgroundColor(c) == Attr("BackgroundColor", FALSE, c)
NoAttr             == Attr("", FALSE, 0)

\* The color indices the operations are called with.
Colors == {4, 8, 12, 16, 20}

PlainAttrs == {Bold, Dim, Blink, Reverse, Secure}
                \cup {Italic(b) : b \in BOOLEAN}
                \cup {Underline(b) : b \in BOOLEAN}
                \cup {Standout(b) : b \in BOOLEAN}
ColorAttrs == {ForegroundColor(c) : c \in Colors} \cup {BackgroundColor(c) : c \in Colors}
Attrs      == PlainAttrs \cup ColorAttrs

IsColorAttr(a) == a.kind \in {"ForegroundColor", "BackgroundColor"}

(***************************************************************************)
(* TerminfoTerminal: helpers                                                *)
(***************************************************************************)

\* cap_for_attr with the two italic names exchanged.
cap_for_attr_italic_swapped(attr) ==
    CASE attr.kind = "Bold"                       -> "bold"
      [] attr.kind = "Dim"                        -> "dim"
      [] attr.kind = "Italic" /\ attr.on          -> "ritm"
      [] attr.kind = "Italic" /\ ~attr.on         -> "sitm"
      [] attr.kind = "Underline" /\ attr.on       -> "smul"
      [] attr.kind = "Underline" /\ ~attr.on      -> "rmul"
      [] attr.kind = "Blink"                      -> "blink"
      [] attr.kind = "Standout" /\ attr.on        -> "smso"
      [] attr.kind = "Standout" /\ ~attr.on       -> "rmso"
      [] attr.kind = "Reverse"                    -> "rev"
      [] attr.kind = "Secure"                     -> "invis"
      [] attr.kind = "ForegroundColor"            -> "setaf"
      [] attr.kind = "BackgroundColor"            -> "setab"

cap_for_attr(attr) ==
    CASE attr.kind = "Bold"                       -> "bold"
      [] attr.kind = "Dim"                        -> "dim"
      [] attr.kind = "Italic" /\ attr.on          -> "sitm"
      [] attr.kind = "Italic" /\ ~attr.on         -> "ritm"
      [] attr.kind = "Underline" /\ attr.on       -> "smul"
      [] attr.kind = "Underline" /\ ~attr.on      -> "rmul"
      [] attr.kind = "Blink"                      -> "blink"
      [] attr.kind = "Standout" /\ attr.on        -> "smso"
      [] attr.kind = "Standout" /\ ~attr.on       -> "rmso"
      [] attr.kind = "Reverse"                    -> "rev"
      [] attr.kind = "Secure"                     -> "invis"
      [] attr.kind = "ForegroundColor"            -> "setaf"
      [] attr.kind = "BackgroundColor"            -> "setab"

\* dim_if_necessary with the comparison against num_colors made strict.
dim_if_exceeds(nc, color) ==
    IF color > nc /\ color >= 8 /\ color < 16 THEN color - 8 ELSE color

\* dim_if_necessary(&self, color), as a function of self.num_colors too.
dim_if_necessary(nc, color) ==
    IF color >= nc /\ color >= 8 /\ color < 16 THEN color - 8 ELSE color

\* What one call did: its return value, the buffers it handed to
\* out.write(), the color index after dim_if_necessary (idx), the
\* capability it looked up (cap, "" when it looked none up), the parameters
\* and the result of the expand() call it made (exp: "none" when it made
\* none, "absent" when the capability is not in ti.strings), and the
\* Variables value of that call afterwards.
Outcome(ret, wrote, cap, params, exp, vs) ==
    [ret |-> ret, wrote |-> wrote, idx |-> 0, cap |-> cap, params |-> params,
     exp |-> exp, vars |-> vs]

\* Ok(false) of a call that looked no capability up.
NotApplied == Outcome("Ok(false)", << >>, "", << >>, "none", variables)

\* apply_cap that keeps one Variables value across its calls.
apply_cap_kept_variables(cmd, params) ==
    IF cmd \in DOMAIN ti.strings
    THEN LET s == expand(ti.strings[cmd], params, variables) IN
         IF s.ok
         THEN Outcome("Ok(true)", <<s.bytes>>, cmd, params, "ok", s.vars)
         ELSE Outcome("Ok(false)", << >>, cmd, params, s.err, s.vars)
    ELSE Outcome("Ok(false)", << >>, cmd, params, "absent", variables)

apply_cap(cmd, params) ==
    IF cmd \in DOMAIN ti.strings
    THEN LET s == expand(ti.strings[cmd], params, Variables_new) IN
         IF s.ok
         THEN Outcome("Ok(true)", <<s.bytes>>, cmd, params, "ok", s.vars)
         ELSE Outcome("Ok(false)", << >>, cmd, params, s.err, s.vars)
    ELSE Outcome("Ok(false)", << >>, cmd, params, "absent", variables)

(***************************************************************************)
(* impl Terminal for TerminfoTerminal                                       *)
(***************************************************************************)

\* fg with the range check made inclusive.
fg_inclusive(color) ==
    LET c == dim_if_necessary(num_colors, color) IN
    IF num_colors >= c
    THEN [apply_cap("setaf", <<c>>) EXCEPT !.idx = c]
    ELSE [NotApplied EXCEPT !.idx = c]

fg(color) ==
    LET c == dim_if_necessary(num_colors, color) IN
    IF num_colors > c
    THEN [apply_cap("setaf", <<c>>) EXCEPT !.idx = c]
    ELSE [NotApplied EXCEPT !.idx = c]

\* bg without the range check.
bg_unchecked(color) ==
    LET c == dim_if_necessary(num_colors, color) IN
    [apply_cap("setab", <<c>>) EXCEPT !.idx = c]

bg(color) ==
    LET c == dim_if_necessary(num_colors, color) IN
    IF num_colors > c
    THEN [apply_cap("setab", <<c>>) EXCEPT !.idx = c]
    ELSE [NotApplied EXCEPT !.idx = c]

attr(a) ==
    CASE a.kind = "ForegroundColor" -> fg(a.color)
      [] a.kind = "BackgroundColor" -> bg(a.color)
      [] OTHER                      -> apply_cap(cap_for_attr(a), << >>)

\* supports_attr that compares the color index with num_colors.
supports_attr_by_index(a) ==
    IF a.kind \in {"ForegroundColor", "BackgroundColor"}
    THEN num_colors > a.color
    ELSE cap_for_attr(a) \in DOMAIN ti.strings

supports_attr(a) ==
    IF a.kind \in {"ForegroundColor", "BackgroundColor"}
    THEN num_colors > 0
    ELSE cap_for_attr(a) \in DOMAIN ti.strings

\* The names reset() tries, in order.
ResetOrder == <<"sg0", "sgr", "op">>

IsPresent(cap) == cap \in DOMAIN ti.strings

\* reset() that goes on to the next name when an expansion fails.
RECURSIVE reset_from(_)
reset_from(found) ==
    IF found = << >>
    THEN NotApplied
    ELSE LET s == expand(ti.strings[found[1]], << >>, Variables_new) IN
         IF s.ok
         THEN Outcome("Ok(true)", <<s.bytes>>, found[1], << >>, "ok", s.vars)
         ELSE IF Len(found) > 1 THEN reset_from(Tail(found))
         ELSE Outcome("Ok(false)", << >>, found[1], << >>, s.err, s.vars)

reset_falls_through == reset_from(SelectSeq(ResetOrder, IsPresent))

reset ==
    LET found == SelectSeq(ResetOrder, IsPresent) IN
    IF found = << >>
    THEN NotApplied
    ELSE LET s == expand(ti.strings[found[1]], << >>, Variables_new) IN
         IF s.ok
         THEN Outcome("Ok(true)", <<s.bytes>>, found[1], << >>, "ok", s.vars)
         ELSE Outcome("Ok(false)", << >>, found[1], << >>, s.err, s.vars)

(***************************************************************************)
(* TerminfoTerminal::new                                                    *)
(***************************************************************************)

\* An Option<String> is << >> (None) or <<s>> (Some(s)).
TermValues    == {<< >>, <<"xterm">>}
MsysconValues == {<< >>, <<"mintty.exe">>, <<"cmd.exe">>}

\* is_msys that takes any MSYSCON for mintty.
is_msys_any(msyscon) == msyscon # << >>

\* os::getenv("MSYSCON").map_or(false, |s| "mintty.exe" == s)
is_msys(msyscon) == msyscon = <<"mintty.exe">>

\* colors_of that looks for "setaf" only.
colors_of_setaf_only(inf) ==
    IF "setaf" \in DOMAIN inf.strings
    THEN IF "colors" \in DOMAIN inf.numbers THEN inf.numbers["colors"] ELSE 0
    ELSE 0

\* nc of new(): the colors of a parsed entry.
colors_of(inf) ==
    IF "setaf" \in DOMAIN inf.strings /\ "setab" \in DOMAIN inf.strings
    THEN IF "colors" \in DOMAIN inf.numbers THEN inf.numbers["colors"] ELSE 0
    ELSE 0

NoTermInfo == TermInfo(<< >>, EmptyMap, EmptyMap)

\* The inputs of new(): the two environment variables, the result of
\* open() and the result of parse() ("" where a step was not reached).
Env(term, msyscon, entry, parsed) ==
    [term |-> term, msyscon |-> msyscon, entry |-> entry, parsed |-> parsed]
NoEnv == Env(<< >>, << >>, "", "")

Call(op, a, color, o, env) ==
    [op |-> op, attr |-> a, color |-> color, ret |-> o.ret, wrote |-> o.wrote,
     idx |-> o.idx, cap |-> o.cap, params |-> o.params, exp |-> o.exp, env |-> env]

NoOutcome(ret) == Outcome(ret, << >>, "", << >>, "none", Variables_new)

Init ==
    /\ phase = "start"
    /\ num_colors = 0
    /\ out = << >>
    /\ ti = NoTermInfo
    /\ variables = Variables_new
    /\ last = Call("", NoAttr, 0, NoOutcome(""), NoEnv)

\* new() returns None: no TerminfoTerminal exists.
Unavailable(env) ==
    /\ phase' = "unavailable"
    /\ last' = Call("new", NoAttr, 0, NoOutcome("None"), env)
    /\ UNCHANGED <<num_colors, out, ti, variables>>

\* new() returns Some(TerminfoTerminal { out, ti, num_colors }).
Available(inf, nc, env) ==
    /\ phase' = "ready"
    /\ ti' = inf
    /\ num_colors' = nc
    /\ last' = Call("new", NoAttr, 0, NoOutcome("Some"), env)
    /\ UNCHANGED <<out, variables>>

\* TERM is not defined.
NewNoTerm ==
    /\ phase = "start"
    /\ \E msyscon \in MsysconValues : Unavailable(Env(<< >>, msyscon, "", ""))

\* open() fails: the msys table under mintty, None otherwise.
NewNotFound ==
    /\ phase = "start"
    /\ \E term \in TermValues \ {<< >>}, msyscon \in MsysconValues :
         IF is_msys(msyscon)
         THEN Available(msys_terminfo, 8, Env(term, msyscon, "Err", ""))
         ELSE Unavailable(Env(term, msyscon, "Err", ""))

\* open() succeeds and parse() fails.
NewParseError ==
    /\ phase = "start"
    /\ \E term \in TermValues \ {<< >>}, msyscon \in MsysconValues, e \in DecodeErrors :
         Unavailable(Env(term, msyscon, "Ok", e))

\* open() and parse() succeed.
NewParsed ==
    /\ phase = "start"
    /\ \E term \in TermValues \ {<< >>}, msyscon \in MsysconValues, inf \in Tables :
         Available(inf, colors_of(inf), Env(term, msyscon, "Ok", "Ok"))

(***************************************************************************)
(* The calls on a constructed terminal                                      *)
(***************************************************************************)

\* A call that may write: the buffers go to the sink, the call is recorded.
Do(op, a, color, o) ==
    /\ phase = "ready"
    /\ Len(out) < MaxWrites
    /\ out' = out \o o.wrote
    /\ variables' = o.vars
    /\ last' = Call(op, a, color, o, NoEnv)
    /\ UNCHANGED <<phase, num_colors, ti>>

Fg == \E c \in Colors : Do("fg", NoAttr, c, fg(c))

Bg == \E c \in Colors : Do("bg", NoAttr, c, bg(c))

ApplyAttr == \E a \in Attrs : Do("attr", a, 0, attr(a))

Reset == Do("reset", NoAttr, 0, reset)

\* supports_attr takes &self: it has no access to the sink.
SupportsAttr ==
    /\ phase = "ready"
    /\ Len(out) < MaxWrites
    /\ \E a \in Attrs :
         last' = Call("supports_attr", a, 0,
                      NoOutcome(IF supports_attr(a) THEN "true" ELSE "false"), NoEnv)
    /\ UNCHANGED <<phase, num_colors, out, ti, variables>>

Next ==
    \/ NewNoTerm
    \/ NewNotFound
    \/ NewParseError
    \/ NewParsed
    \/ Fg
    \/ Bg
    \/ ApplyAttr
    \/ Reset
    \/ SupportsAttr

Spec == Init /\ [][Next]_vars

(***************************************************************************)
(* Properties                                                               *)
(***************************************************************************)

Ready == phase = "ready"

ExpandErrors == {"StackUnderflow", "Malformed", "UnterminatedConditional"}

\* The mapping table of the attributes, as the specification lists it.
MappedName(a) ==
    CASE a = Bold             -> "bold"
      [] a = Dim              -> "dim"
      [] a = Italic(TRUE)     -> "sitm"
      [] a = Italic(FALSE)    -> "ritm"
      [] a = Underline(TRUE)  -> "smul"
      [] a = Underline(FALSE) -> "rmul"
      [] a = Blink            -> "blink"
      [] a = Standout(TRUE)   -> "smso"
      [] a = Standout(FALSE)  -> "rmso"
      [] a = Reverse          -> "rev"
      [] a = Secure           -> "invis"
      [] a.kind = "ForegroundColor" -> "setaf"
      [] a.kind = "BackgroundColor" -> "setab"

Has(cap) == cap \in DOMAIN ti.strings

\* The first of the names of reset() (mod.rs:116) the table holds, "" when it
\* holds none.
FirstPresent ==
    IF Has("sg0") THEN "sg0" ELSE IF Has("sgr") THEN "sgr" ELSE IF Has("op") THEN "op" ELSE ""

\* The expansion of capability cap on a store no call has touched.
Fresh(cap, params) == expand(ti.strings[cap], params, Variables_new)

\* The call recorded in last was a color call; its color argument and the
\* capability a color call expands.
IsColorCall(l) == l.op \in {"fg", "bg"} \/ (l.op = "attr" /\ IsColorAttr(l.attr))
ColorArg(l)    == IF l.op = "attr" THEN l.attr.color ELSE l.color
ColorCap(l)    == IF l.op = "fg" \/ (l.op = "attr" /\ l.attr.kind = "ForegroundColor")
                  THEN "setaf" ELSE "setab"

\* The step wrote nothing / exactly the buffer b.
SinkUnchanged == out' = out
SinkGot(b)    == out' = Append(out, b)

\* C1 as stated: set_foreground(c) and set_background(c) remap c to c-8
\* exactly when c lies in [8,16) and c > n; otherwise, c = n included, the
\* index that reaches the range check is c.
C1_RemapWhenExceeds ==
    (Ready /\ IsColorCall(last)) =>
        last.idx = IF ColorArg(last) >= 8 /\ ColorArg(last) < 16
                      /\ ColorArg(last) > num_colors
                   THEN ColorArg(last) - 8 ELSE ColorArg(last)

\* The index c >= 8, c < 16 that is remapped under n supported colors.
Remapped(n, c) == IF c >= 8 /\ c < 16 /\ c >= n THEN c - 8 ELSE c

\* C1 amended: set_foreground(c) and set_background(c) remap c to c-8
\* exactly when c lies in [8,16) and c >= n (c = n included); in every other
\* case the index is left as c. The range check (index < n) is made on that
\* index, and the template is expanded with it as the sole parameter.
C1_RemapWhenNotBelow ==
    /\ (Ready /\ IsColorCall(last)) =>
          /\ last.idx = Remapped(num_colors, ColorArg(last))
          /\ (last.exp = "none") = (last.idx >= num_colors)
          /\ (last.exp # "none" => last.params = <<last.idx>>)
    /\ \A c \in 0..MaxColor : dim_if_necessary(num_colors, c) = Remapped(num_colors, c)

\* set_foreground(8) on a terminal of 8 colors expanded "setaf" with 0.
C1_Witness ==
    /\ Ready /\ last.op = "fg" /\ last.color = 8 /\ num_colors = 8
    /\ last.idx = 0 /\ last.ret = "Ok(true)" /\ last.params = <<0>>

\* C2: set_foreground / set_background expand "setaf" / "setab" only with a
\* single numeric parameter strictly below the supported color count; when
\* the (possibly remapped) index is not below the count the call returns
\* false and writes nothing. With count 8, index 12 expands "setaf" with
\* parameter 4 and index 20 is a no-op returning false.
C2_ColorInRange ==
    [][
    IsColorCall(last') =>
        /\ last'.exp \notin {"none", "absent"} =>
              /\ last'.cap = ColorCap(last')
              /\ Len(last'.params) = 1
              /\ last'.params[1] < num_colors
        /\ last'.idx >= num_colors =>
              /\ last'.ret = "Ok(false)"
              /\ last'.exp = "none"
              /\ SinkUnchanged
        /\ (last'.ret = "Ok(true)") = (out' # out)
        /\ (num_colors = 8 /\ ColorArg(last') = 12) =>
              /\ last'.cap = ColorCap(last')
              /\ last'.params = <<4>>
              /\ Fresh(ColorCap(last'), <<4>>).ok =>
                    SinkGot(Fresh(ColorCap(last'), <<4>>).bytes)
        /\ (num_colors = 8 /\ ColorArg(last') = 20) =>
              /\ last'.ret = "Ok(false)"
              /\ SinkUnchanged
    ]_vars

\* set_foreground(12) on a terminal of 8 colors expanded "setaf" with 4.
C2_Witness ==
    /\ Ready /\ last.op = "fg" /\ last.color = 12 /\ num_colors = 8
    /\ last.cap = "setaf" /\ last.params = <<4>> /\ last.ret = "Ok(true)"
    /\ out = <<<<"setaf", "4">>>>

\* C3: reset() considers the names [clear-all, "sgr", "op"] in that order
\* and selects the first one present in the table's strings, whichever later
\* ones are present too; it expands it with no parameters, writes exactly
\* that expansion (when there is one, see C4) and returns true; with none of
\* the three present it returns false and writes nothing. The clear-all
\* capability of the compiled format is "sgr0".
C3_ResetPrefersClearAll ==
    [][
    last'.op = "reset" =>
        LET first == IF Has("sgr0") THEN "sgr0"
                     ELSE IF Has("sgr") THEN "sgr"
                     ELSE IF Has("op") THEN "op" ELSE ""
        IN IF first # ""
           THEN /\ last'.cap = first
                /\ last'.params = << >>
                /\ Fresh(first, << >>).ok =>
                      /\ SinkGot(Fresh(first, << >>).bytes)
                      /\ last'.ret = "Ok(true)"
           ELSE /\ last'.ret = "Ok(false)"
                /\ SinkUnchanged
    ]_vars

\* The capability a call selects and the parameters it expands it with
\* ("" when the call selects none).
Selected(l) ==
    CASE l.op = "reset"  -> FirstPresent
      [] IsColorCall(l)  -> IF l.idx < num_colors THEN ColorCap(l) ELSE ""
      [] l.op = "attr"   -> MappedName(l.attr)
      [] OTHER           -> ""
SelectedParams(l) == IF IsColorCall(l) THEN <<l.idx>> ELSE << >>

\* C4: when the expansion of the template selected by apply_attribute,
\* set_foreground, set_background or reset fails, the operation returns
\* false (not an error), the sink is unchanged and no other capability is
\* tried in its place.
C4_ExpansionFailure ==
    [][
    (/\ last'.op \in {"fg", "bg", "attr", "reset"}
     /\ Selected(last') # ""
     /\ Has(Selected(last'))
     /\ ~Fresh(Selected(last'), SelectedParams(last')).ok) =>
        /\ last'.ret = "Ok(false)"
        /\ SinkUnchanged
        /\ last'.cap = Selected(last')
        /\ last'.exp = Fresh(Selected(last'), SelectedParams(last')).err
        /\ last'.exp \in ExpandErrors
    ]_vars

\* reset() found "sgr" malformed and did not go on to "op".
C4_Witness ==
    /\ Ready /\ last.op = "reset" /\ last.cap = "sgr" /\ last.exp = "Malformed"
    /\ Has("op") /\ last.ret = "Ok(false)" /\ out = << >>

\* C5 as stated: with TERM present, when search or decode fails, new()
\* builds the terminal on the built-in table if MSYSCON names mintty and
\* returns None otherwise.
C5_FallbackOnAnyFailure ==
    (/\ last.op = "new"
     /\ last.env.term # << >>
     /\ (last.env.entry = "Err" \/ last.env.parsed \in DecodeErrors)) =>
        IF last.env.msyscon = <<"mintty.exe">>
        THEN phase = "ready" /\ ti = msys_terminfo
        ELSE phase = "unavailable" /\ last.ret = "None"

\* C5 amended: with TERM present, when the search fails, new() builds the
\* terminal on the built-in table (8 colors) if MSYSCON names mintty and
\* returns None otherwise; when the search succeeds and the decode fails,
\* new() returns None whatever MSYSCON is.
C5_FallbackOnSearchFailure ==
    (last.op = "new" /\ last.env.term # << >>) =>
        /\ last.env.entry = "Err" =>
              IF last.env.msyscon = <<"mintty.exe">>
              THEN /\ phase = "ready" /\ last.ret = "Some"
                   /\ ti = msys_terminfo /\ num_colors = 8
              ELSE phase = "unavailable" /\ last.ret = "None"
        /\ last.env.parsed \in DecodeErrors =>
              phase = "unavailable" /\ last.ret = "None"

\* new() after a failed search under mintty: the built-in table.
C5_Witness ==
    /\ last.op = "new" /\ last.env.term # << >> /\ last.env.entry = "Err"
    /\ last.env.msyscon = <<"mintty.exe">> /\ phase = "ready" /\ ti = msys_terminfo

\* C6: on every terminal new() can build (parsed or built-in table), and
\* after any calls on it, num_colors is the table's number "colors" if both
\* "setaf" and "setab" are among its strings and 0 otherwise ("colors"
\* absent: 0 too); so num_colors > 0 implies both are present.
C6_ColorCount ==
    Ready =>
        /\ num_colors = IF Has("setaf") /\ Has("setab") /\ "colors" \in DOMAIN ti.numbers
                        THEN ti.numbers["colors"] ELSE 0
        /\ num_colors > 0 => (Has("setaf") /\ Has("setab"))

\* A parsed table with "colors" and "setaf" but no "setab", after a call.
C6_Witness ==
    /\ Ready /\ last.op \in {"fg", "bg", "attr", "reset"}
    /\ Has("setaf") /\ ~Has("setab") /\ "colors" \in DOMAIN ti.numbers
    /\ ti.numbers["colors"] = 8 /\ num_colors = 0

\* C7: supports(attr) is, for ForegroundColor(n) and BackgroundColor(n) with
\* any n, true iff num_colors > 0; for every other attribute, true iff the
\* capability mapped to it is among the table's strings. It writes nothing.
C7_Supports ==
    [][
    last'.op = "supports_attr" =>
        /\ last'.ret = IF IsColorAttr(last'.attr)
                       THEN (IF num_colors > 0 THEN "true" ELSE "false")
                       ELSE (IF Has(MappedName(last'.attr)) THEN "true" ELSE "false")
        /\ SinkUnchanged
    ]_vars

\* supports(ForegroundColor(20)) is true on a terminal of 8 colors.
C7_Witness ==
    /\ Ready /\ last.op = "supports_attr" /\ last.attr = ForegroundColor(20)
    /\ num_colors = 8 /\ last.ret = "true"

\* C8: apply_attribute(attr) for a non-color attribute looks up the name the
\* mapping table fixes, expands it with zero parameters and returns true iff
\* the capability exists and its expansion was written; absent, it returns
\* false (no error) and writes nothing. For ForegroundColor(c) and
\* BackgroundColor(c) it behaves as set_foreground(c) / set_background(c).
C8_ApplyAttribute ==
    [][
    last'.op = "attr" =>
        IF IsColorAttr(last'.attr)
        THEN LET o == IF last'.attr.kind = "ForegroundColor"
                      THEN fg(last'.attr.color) ELSE bg(last'.attr.color)
             IN /\ last'.ret = o.ret
                /\ out' = out \o o.wrote
                /\ <<last'.cap, last'.params, last'.exp>> = <<o.cap, o.params, o.exp>>
                /\ last'.cap \in {"", ColorCap(last')}
        ELSE /\ last'.cap = MappedName(last'.attr)
             /\ last'.params = << >>
             /\ IF Has(MappedName(last'.attr))
                THEN IF Fresh(MappedName(last'.attr), << >>).ok
                     THEN /\ last'.ret = "Ok(true)"
                          /\ SinkGot(Fresh(MappedName(last'.attr), << >>).bytes)
                     ELSE /\ last'.ret = "Ok(false)"
                          /\ SinkUnchanged
                ELSE /\ last'.ret = "Ok(false)"
                     /\ last'.exp = "absent"
                     /\ SinkUnchanged
    ]_vars

\* apply_attribute(Italic(on)) wrote the expansion of "sitm".
C8_Witness ==
    /\ Ready /\ last.op = "attr" /\ last.attr = Italic(TRUE) /\ last.cap = "sitm"
    /\ last.ret = "Ok(true)" /\ out = <<<<"sitm">>>>

\* What a call does on a terminal no call was made on before: it selects
\* its capability, expands it on a new store and writes the expansion.
OnNewStore(l) ==
    IF Selected(l) # "" /\ Has(Selected(l)) /\ Fresh(Selected(l), SelectedParams(l)).ok
    THEN [ret |-> "Ok(true)", wrote |-> <<Fresh(Selected(l), SelectedParams(l)).bytes>>]
    ELSE [ret |-> "Ok(false)", wrote |-> << >>]

\* C9: every expansion a call starts runs on a newly created variable store
\* (both banks), so nothing %P wrote in one call is seen by a later one: for
\* a given table and color count, the result of a call and the bytes it
\* appends depend on the call and its argument only, not on the calls made
\* before; and no call changes the table or the color count.
C9_NoCarriedVariables ==
    [][
    last'.op \in {"fg", "bg", "attr", "reset", "supports_attr"} =>
        /\ ti' = ti
        /\ num_colors' = num_colors
        /\ last'.op # "supports_attr" =>
              /\ last'.ret = OnNewStore(last').ret
              /\ out' = out \o OnNewStore(last').wrote
    ]_vars

\* A call stored 4 in its variables, and the call after it still read 0.
C9_Witness ==
    /\ Ready /\ Len(out) = 2 /\ last.op = "reset"
    /\ out[1] = <<"setaf", "0", "0", "4">>
    /\ out[2] = <<"op", "0", "0", "0">>

\* C10: if supports(attr) is false, apply_attribute(attr) returns false and
\* leaves the sink unchanged. For a color attribute with supports true,
\* apply_attribute returns false exactly when the (possibly remapped) index
\* is not below num_colors or the expansion fails.
C10_UnsupportedNotApplied ==
    [][
    last'.op = "attr" =>
        /\ ~supports_attr(last'.attr) =>
              /\ last'.ret = "Ok(false)"
              /\ SinkUnchanged
        /\ (IsColorAttr(last'.attr) /\ supports_attr(last'.attr)) =>
              (last'.ret = "Ok(false)") =
                 (\/ Remapped(num_colors, last'.attr.color) >= num_colors
                  \/ ~Fresh(ColorCap(last'), <<Remapped(num_colors, last'.attr.color)>>).ok)
    ]_vars

\* apply_attribute(BackgroundColor(4)) on a table with "setab" and "colors"
\* but no "setaf": not supported, not applied.
C10_Witness ==
    /\ Ready /\ last.op = "attr" /\ last.attr = BackgroundColor(4)
    /\ Has("setab") /\ "colors" \in DOMAIN ti.numbers /\ num_colors = 0
    /\ last.ret = "Ok(false)" /\ out = << >>

====
